---- MODULE Spec2Model ----
(***************************************************************************)
(* Model of alkomp's src/device.rs: typed device buffers (GPUData), the    *)
(* upload / readback pair (Device::to_device, Device::get), the binding    *)
(* builder (ParamsBuilder), and pipeline compilation and dispatch          *)
(* (Device::compile, Device::call), over a FIFO command queue.             *)
(*                                                                         *)
(* Buffers are byte sequences.  Option<X> is a sequence of length <= 1:    *)
(* None is <<>>, Some(x) is <<x>>.  A HashMap is a function; its iteration *)
(* order (values()) is unspecified, so each iteration picks an order.      *)
(***************************************************************************)
EXTENDS Integers, Sequences, FiniteSets, TLC

VARIABLES
    target,        \* cfg!(target_arch): "native" or "wasm32", fixed per build
    gpu,           \* the GPUData handles returned by to_device, by buffer id
    staging,       \* contents of each handle's staging_buffer (bytes)
    storage,       \* contents of each handle's storage_buffer (bytes)
    mapped,        \* whether each staging_buffer is currently host-mapped
    queue,         \* commands submitted to wgpu::Queue, not yet executed
    builder,       \* the live ParamsBuilder (Option)
    built,         \* the last value returned by ParamsBuilder::build (Option)
    compiled,      \* the GPUCompute held by the caller (Option)
    lastCompile,   \* inputs and outcome of the last Device::compile
    lastCall,      \* what the last Device::call handed to the device
    lastGet,       \* inputs and outcome of the last Device::get
    uploaded,      \* history: the host sequence each buffer was created from
    expected,      \* history: each storage content under submission order
    synced,        \* history: a copy ran on the buffer and no dispatch since
    dispatched,    \* history: a dispatch binding the buffer was submitted
    nCalls,        \* number of dispatches submitted so far
    panicked       \* the program aborted (a Rust panic)

vars == <<target, gpu, staging, storage, mapped, queue, builder, built,
          compiled, lastCompile, lastCall, lastGet, uploaded, expected,
          synced, dispatched, nCalls, panicked>>

(* ------------------------------ bounds --------------------------------- *)
MaxBuffers == 1
MaxLen == 2
MaxParams == 2
MaxCalls == 1

(* ------------------------- options and maps ---------------------------- *)
None == <<>>
Some(x) == <<x>>
IsSome(o) == Len(o) = 1

\* HashMap::new()
EmptyMap == <<>>

\* HashMap::insert(k, v)
Insert(m, k, v) == (k :> v) @@ m

\* HashMap::len()
MapLen(m) == Cardinality(DOMAIN m)

\* The orders in which a HashMap may yield its keys.
Orders(S) ==
    {o \in [1..Cardinality(S) -> S] :
        \A i, j \in 1..Cardinality(S) : i # j => o[i] # o[j]}

\* HashMap::values() collected, iterating the keys in order o.
ValuesIn(m, o) == [i \in 1..Len(o) |-> m[o[i]]]

\* u64::max
Max(a, b) == IF a >= b THEN a ELSE b

(* --------------------------- bytes and elements ------------------------ *)
ByteMod == 256

\* std::mem::size_of::<T>() of the element types uploaded.
ElemSizes == {2, 4}

RECURSIVE Pow(_, _)
Pow(b, e) == IF e = 0 THEN 1 ELSE b * Pow(b, e - 1)

\* The host value uploaded at position i of a slice: distinct per position,
\* and more than one byte wide.
ElemValue(i) == 257 * i

\* The bytes of one element (little endian).
ToBytes(v, sz) == [i \in 1..sz |-> (v \div Pow(ByteMod, i - 1)) % ByteMod]

\* bytemuck::from_bytes::<T>(b)
RECURSIVE FromBytes(_)
FromBytes(b) ==
    IF Len(b) = 0 THEN 0 ELSE b[1] + ByteMod * FromBytes(Tail(b))

\* bytemuck::cast_slice(data): the elements' bytes, concatenated.
CastSlice(data, sz) ==
    [j \in 1..(Len(data) * sz) |->
        ToBytes(data[((j - 1) \div sz) + 1], sz)[((j - 1) % sz) + 1]]

\* data.chunks_exact(sz).map(from_bytes).collect(): whole chunks only.
ChunksExact(bytes, sz) ==
    [k \in 1..(Len(bytes) \div sz) |->
        FromBytes(SubSeq(bytes, (k - 1) * sz + 1, k * sz))]

\* n bytes, each v.
Fill(n, v) == [i \in 1..n |-> v]

\* The byte held by memory nothing has written yet (create_buffer): no
\* command reads such a byte before a copy has written it.
Unwritten == 85

\* The first n elements of s.
Take(s, n) == SubSeq(s, 1, n)

(* ------------------------------ buffers -------------------------------- *)
\* wgpu::COPY_BUFFER_ALIGNMENT, to which create_buffer_init pads.
COPY_BUFFER_ALIGNMENT == 4

\* Byte lengths create_buffer_init may give a buffer for n content bytes: it
\* allocates a mapped buffer padded to the copy alignment, writes the
\* contents at its start and zeroes the rest.  Releases of the library
\* differ in the padding of aligned contents (n + (A - n % A), or n rounded
\* up and at least A); the repository's tests drop the trailing element of
\* every readback of 4-byte elements (tests/gpu.rs:17, :67), which is the
\* first of the two.
InitSizes(n) ==
    {n + (COPY_BUFFER_ALIGNMENT - (n % COPY_BUFFER_ALIGNMENT)),
     Max(((n + COPY_BUFFER_ALIGNMENT - 1) \div COPY_BUFFER_ALIGNMENT)
            * COPY_BUFFER_ALIGNMENT, COPY_BUFFER_ALIGNMENT)}

\* A GPUData<[T]> handle: size, and T (PhantomData) as its element size.
GPUData(bytes, sz) == [size |-> Len(bytes), elem |-> sz]

\* Mutant of CopyBufferToBuffer: one byte short.
CopyBufferToBufferShort(src, dst, n) ==
    [i \in 1..Len(dst) |-> IF i < n THEN src[i] ELSE dst[i]]

\* encoder.copy_buffer_to_buffer(src, 0, dst, 0, n): the first n bytes.
CopyBufferToBuffer(src, dst, n) ==
    [i \in 1..Len(dst) |-> IF i <= n THEN src[i] ELSE dst[i]]

\* The bytes of one 32-bit word of a shader storage buffer.
WordSize == 4

\* The compute shader run by n invocations (local_size_x = 1, so one per
\* workgroup): invocation i rewrites word i of the bound buffer, as
\* indices[index] = f(indices[index]) does; f here adds one to the word's
\* low byte.
Kernel(bytes, n) ==
    [j \in 1..Len(bytes) |->
        IF (j - 1) % WordSize = 0 /\ ((j - 1) \div WordSize) + 1 <= n
        THEN (bytes[j] + 1) % ByteMod
        ELSE bytes[j]]

\* The commands a submission puts on the queue: a copy of n bytes between
\* the two regions of buffer b, or a dispatch of n workgroups on buffers bs.
CopyCmd(dir, b, n) == [op |-> dir, buf |-> b, size |-> n, bufs |-> {}, work |-> 0]
DispatchCmd(bs, n) == [op |-> "dispatch", buf |-> 0, size |-> 0, bufs |-> bs, work |-> n]

\* The device executing one command on the buffers' memory.
ExecStaging(c, stg, sto) ==
    IF c.op = "storage_to_staging"
    THEN [stg EXCEPT ![c.buf] = CopyBufferToBuffer(sto[c.buf], @, c.size)]
    ELSE stg

ExecStorage(c, stg, sto) ==
    CASE c.op = "staging_to_storage" ->
            [sto EXCEPT ![c.buf] = CopyBufferToBuffer(stg[c.buf], @, c.size)]
      [] c.op = "dispatch" ->
            [b \in DOMAIN sto |->
                IF b \in c.bufs THEN Kernel(sto[b], c.work) ELSE sto[b]]
      [] OTHER -> sto

\* History: a copy brings a buffer's regions in step, a dispatch on it ends that.
ExecSynced(c, syn) ==
    CASE c.op = "dispatch" -> [b \in DOMAIN syn |-> syn[b] /\ b \notin c.bufs]
      [] OTHER -> [syn EXCEPT ![c.buf] = TRUE]

\* The memory after the device has executed the commands of q, first to last.
RECURSIVE RunAll(_, _)
RunAll(q, m) ==
    IF q = <<>> THEN m
    ELSE RunAll(Tail(q),
                [stg |-> ExecStaging(Head(q), m.stg, m.sto),
                 sto |-> ExecStorage(Head(q), m.stg, m.sto),
                 syn |-> ExecSynced(Head(q), m.syn)])

\* The position in the queue of the command the device takes next:
\* submissions execute in order.
NextCommand(q) == 1

\* The queue without its i-th command.
Remove(q, i) == SubSeq(q, 1, i - 1) \o SubSeq(q, i + 1, Len(q))

\* Mutant of Poll: Maintain::Poll, which returns without waiting.
PollNoWait(q, m) == [mem |-> m, queue |-> q]

\* device.poll(Maintain::Wait): blocks until all submitted work has run.
Poll(q, m) == [mem |-> RunAll(q, m), queue |-> <<>>]

\* buffer_slice.map_async(MapMode::Read) resolving with ok.
MapAsync(mp, b, ok) == [mp EXCEPT ![b] = ok]

\* Mutant of Unmap: the mapping is never released.
UnmapForgotten(mp, b) == mp

\* staging_buffer.unmap()
Unmap(mp, b) == [mp EXCEPT ![b] = FALSE]

\* buffer_slice.get_mapped_range() of staging_buffer.slice(0..).
MappedRange(stg, b) == stg[b]

\* The records of the last get, compile and call, before any.
NoGet == [called |-> FALSE, buf |-> 0, ok |-> FALSE, result |-> None,
          expected |-> <<>>, clean |-> FALSE, mapped |-> FALSE]
NoCompile == [called |-> FALSE, failed |-> FALSE, result |-> "none"]
NoCall == [called |-> FALSE, status |-> "none", layoutEntries |-> <<>>,
           groupEntries |-> <<>>, sets |-> {}, bound |-> {}]

Init ==
    /\ target \in {"native", "wasm32"}
    /\ gpu = <<>>
    /\ staging = <<>>
    /\ storage = <<>>
    /\ mapped = <<>>
    /\ queue = <<>>
    /\ builder = None
    /\ built = None
    /\ compiled = None
    /\ lastCompile = NoCompile
    /\ lastCall = NoCall
    /\ lastGet = NoGet
    /\ uploaded = <<>>
    /\ expected = <<>>
    /\ synced = <<>>
    /\ dispatched = <<>>
    /\ nCalls = 0
    /\ panicked = FALSE

(* ----------------------------- Device::to_device ----------------------- *)
\* The slices handed to to_device, for elements of size sz: those whose
\* byte length the device accepts as a copy size (a multiple of the copy
\* alignment), the empty slice among them.
Datas(sz) ==
    {[i \in 1..n |-> ElemValue(i)] :
        n \in {k \in 0..MaxLen : (k * sz) % COPY_BUFFER_ALIGNMENT = 0}}

\* device.create_buffer_init(contents: bytes), of n bytes: the contents,
\* then zeroes.
CreateBufferInit(bytes, n) == bytes \o Fill(n - Len(bytes), 0)

\* device.create_buffer(size), mapped_at_creation: false.
CreateBuffer(size) == Fill(size, Unwritten)

\* The staging buffer as created: on native create_buffer_init(contents:
\* bytes), of n bytes; on wasm32 create_buffer(size: bytes.len()).
NewStaging(bytes, n) ==
    IF target = "native"
    THEN CreateBufferInit(bytes, n)
    ELSE CreateBuffer(Len(bytes))

\* The storage buffer as created: on native create_buffer(size: bytes.len());
\* on wasm32 create_buffer_init(contents: bytes), of n bytes.
NewStorage(bytes, n) ==
    IF target = "native"
    THEN CreateBuffer(Len(bytes))
    ELSE CreateBufferInit(bytes, n)

\* The commands to_device submits: on native, the staging-to-storage copy.
UploadCommands(b, n) ==
    IF target = "native" THEN <<CopyCmd("staging_to_storage", b, n)>> ELSE <<>>

to_device ==
    /\ ~panicked
    /\ Len(gpu) < MaxBuffers
    /\ \E sz \in ElemSizes : \E data \in Datas(sz) :
        LET bytes == CastSlice(data, sz) IN
        \E n \in InitSizes(Len(bytes)) :
            /\ gpu' = Append(gpu, GPUData(bytes, sz))
            /\ staging' = Append(staging, NewStaging(bytes, n))
            /\ storage' = Append(storage, NewStorage(bytes, n))
            /\ mapped' = Append(mapped, FALSE)
            /\ queue' = queue \o UploadCommands(Len(gpu) + 1, Len(bytes))
            /\ uploaded' = Append(uploaded, data)
            /\ expected' = Append(expected, bytes)
            /\ synced' = Append(synced, FALSE)
            /\ dispatched' = Append(dispatched, FALSE)
    /\ UNCHANGED <<target, builder, built, compiled, lastCompile,
                   lastCall, lastGet, nCalls, panicked>>

(* ------------------------------- Device::get --------------------------- *)
\* What get returns: Some(elements of the mapped range) if the mapping
\* resolved, None otherwise.
GetResult(ok, range, sz) == IF ok THEN Some(ChunksExact(range, sz)) ELSE None

get ==
    /\ ~panicked
    /\ \E b \in 1..Len(gpu) : \E ok \in BOOLEAN :
        LET q1 == Append(queue, CopyCmd("storage_to_staging", b, gpu[b].size))
            mp1 == MapAsync(mapped, b, ok)
            p == Poll(q1, [stg |-> staging, sto |-> storage, syn |-> synced])
            mp2 == IF ok THEN Unmap(mp1, b) ELSE mp1
        IN
        /\ queue' = p.queue
        /\ staging' = p.mem.stg
        /\ storage' = p.mem.sto
        /\ synced' = p.mem.syn
        /\ mapped' = mp2
        /\ lastGet' = [called |-> TRUE, buf |-> b, ok |-> ok,
                       result |-> GetResult(ok, MappedRange(p.mem.stg, b),
                                            gpu[b].elem),
                       expected |-> expected[b],
                       clean |-> ~dispatched[b],
                       mapped |-> mp2[b]]
    /\ UNCHANGED <<target, gpu, builder, built, compiled, lastCompile,
                   lastCall, uploaded, expected, dispatched, nCalls,
                   panicked>>

(* -------------------- the device working through the queue ------------- *)
DeviceStep ==
    /\ ~panicked
    /\ queue # <<>>
    /\ LET c == queue[NextCommand(queue)] IN
        /\ staging' = ExecStaging(c, staging, storage)
        /\ storage' = ExecStorage(c, staging, storage)
        /\ synced' = ExecSynced(c, synced)
        /\ queue' = Remove(queue, NextCommand(queue))
    /\ UNCHANGED <<target, gpu, mapped, builder, built, compiled,
                   lastCompile, lastCall, lastGet, uploaded, expected,
                   dispatched, nCalls, panicked>>

(* ------------------------------ ParamsBuilder -------------------------- *)
\* ParamsBuilder::new()
NewBuilder == [binding_layouts |-> EmptyMap, binding_entry |-> EmptyMap,
               log |-> <<>>]

ParamsBuilder_new ==
    /\ ~panicked
    /\ builder = None
    /\ built = None
    /\ builder' = Some(NewBuilder)
    /\ UNCHANGED <<target, gpu, staging, storage, mapped, queue, built,
                   compiled, lastCompile, lastCall, lastGet, uploaded,
                   expected, synced, dispatched, nCalls, panicked>>

\* Mutant of NewBindingLayoutIdx: the index counts the bound buffers.
NewBindingLayoutIdxOfEntries(pb) == MapLen(pb.binding_entry)

\* let new_binding_layout_idx = self.binding_layouts.len() as u32
NewBindingLayoutIdx(pb) == MapLen(pb.binding_layouts)

\* The (BindGroupLayoutEntry, type name) pair param records.
BindingLayout(idx, tag) == [entry |-> [binding |-> idx], tag |-> tag]

\* The BindGroupEntry param records for a supplied buffer.
BindGroupEntry(idx, b) == [binding |-> idx, resource |-> b]

\* The arguments of param::<T>(gpu_data): the optional buffer, and T.
\* Without a buffer T is the caller's choice (param::<f32>(None) in the
\* type's documentation): a 4-byte type here.
ParamArgs ==
    {[gpu_data |-> None, tag |-> 4]}
    \cup {[gpu_data |-> Some(b), tag |-> gpu[b].elem] : b \in 1..Len(gpu)}

\* ParamsBuilder::param
Param(pb, arg) ==
    LET idx == NewBindingLayoutIdx(pb) IN
    [binding_layouts |-> Insert(pb.binding_layouts, idx, BindingLayout(idx, arg.tag)),
     binding_entry |->
        IF IsSome(arg.gpu_data)
        THEN Insert(pb.binding_entry, idx, BindGroupEntry(idx, arg.gpu_data[1]))
        ELSE pb.binding_entry,
     log |-> Append(pb.log, arg)]

param ==
    /\ ~panicked
    /\ IsSome(builder)
    /\ Len(builder[1].log) < MaxParams
    /\ \E arg \in ParamArgs : builder' = Some(Param(builder[1], arg))
    /\ UNCHANGED <<target, gpu, staging, storage, mapped, queue, built,
                   compiled, lastCompile, lastCall, lastGet, uploaded,
                   expected, synced, dispatched, nCalls, panicked>>

\* Mutant of BuildSetId: the argument is ignored.
BuildSetIdIgnored(set) == 0

\* match set { Some(s) => s, None => 0 }
BuildSetId(set) == IF IsSome(set) THEN set[1] ELSE 0

\* ParamsBuilder::build: (GPUSetGroupLayout, binding_entry).  A HashMap
\* yields its entries in an order of its own, unrelated to the keys and
\* fixed once the map is: iter holds the order of each of the two maps.
\* set and log remember the call's argument and the param calls before it.
Build(pb, set, lo, ao) ==
    [layout |-> [set_bind_group_layouts |-> Insert(EmptyMap, BuildSetId(set), pb.binding_layouts)],
     args |-> pb.binding_entry,
     iter |-> [layouts |-> lo, args |-> ao],
     set |-> set,
     log |-> pb.log]

\* The set arguments passed to build.
SetArgs == {None, Some(0), Some(1)}

build ==
    /\ ~panicked
    /\ IsSome(builder)
    /\ \E set \in SetArgs :
       \E lo \in Orders(DOMAIN builder[1].binding_layouts) :
       \E ao \in Orders(DOMAIN builder[1].binding_entry) :
        built' = Some(Build(builder[1], set, lo, ao))
    /\ builder' = None
    /\ UNCHANGED <<target, gpu, staging, storage, mapped, queue,
                   compiled, lastCompile, lastCall, lastGet, uploaded,
                   expected, synced, dispatched, nCalls, panicked>>

(* ------------------------------ Device::compile ------------------------ *)
\* What can go wrong inside compile's device calls.
Failures == {"none", "shader", "entry_point", "pipeline"}

\* The entries compile hands to create_bind_group_layout for one set:
\* set.values().map(|binding_layout| binding_layout.0.clone())
LayoutEntries(set, o) == [i \in 1..Len(o) |-> set[o[i]].entry]

\* The GPUCompute compile builds from params (a value build returned).
GPUCompute(params, entry) ==
    LET sbl == params.layout.set_bind_group_layouts IN
    [bind_group_layouts |->
        [s \in DOMAIN sbl |-> LayoutEntries(sbl[s], params.iter.layouts)],
     compute_pipeline |-> [sets |-> DOMAIN sbl, entry_point |-> entry]]

\* What compile does when a device call inside it fails: none of
\* create_shader_module, create_pipeline_layout and create_compute_pipeline
\* returns a Result, and compile's only return is Ok(..); the failure is
\* raised inside the call (wgpu's error handling panics).
CompileOutcome(failure) == IF failure = "none" THEN "Ok" ELSE "Panic"

compile ==
    /\ ~panicked
    /\ IsSome(built)
    /\ \E failure \in Failures :
        LET out == CompileOutcome(failure) IN
        /\ compiled' = IF out = "Ok"
                       THEN Some(GPUCompute(built[1], "main"))
                       ELSE None
        /\ panicked' = (out = "Panic")
        /\ lastCompile' = [called |-> TRUE, failed |-> failure # "none",
                           result |-> out]
    /\ UNCHANGED <<target, gpu, staging, storage, mapped, queue,
                   builder, built, lastCall, lastGet, uploaded, expected,
                   synced, dispatched, nCalls>>

(* ------------------------------- Device::call -------------------------- *)
\* let set_num = 0
CallSetNum == 0

\* The entries call hands to create_bind_group:
\* args.values().map(|binding| binding.clone())
GroupEntries(args, o) == ValuesIn(args, o)

\* Whether call runs to its end: bind_group_layouts[&set_num] panics when
\* the key is absent, and bind_groups[set_num as usize] panics past the one
\* bind group the vector holds.
CallCompletes(gc) ==
    /\ CallSetNum \in DOMAIN gc.bind_group_layouts
    /\ \A s \in DOMAIN gc.bind_group_layouts : s < 1

\* The workgroup counts (x, y, z) passed to call.
Workspaces == {<<1, 1, 1>>, <<2, 1, 1>>}

call ==
    /\ ~panicked
    /\ IsSome(compiled)
    /\ IsSome(built)
    /\ nCalls < MaxCalls
    /\ \E w \in Workspaces :
        LET gc == compiled[1]
            entries == GroupEntries(built[1].args, built[1].iter.args)
            bufs == {entries[i].resource : i \in 1..Len(entries)}
            n == w[1] * w[2] * w[3]
        IN
        IF CallCompletes(gc)
        THEN /\ queue' = Append(queue, DispatchCmd(bufs, n))
             /\ expected' = [b \in DOMAIN expected |->
                                IF b \in bufs THEN Kernel(expected[b], n)
                                ELSE expected[b]]
             /\ dispatched' = [b \in DOMAIN dispatched |->
                                dispatched[b] \/ b \in bufs]
             /\ lastCall' = [called |-> TRUE, status |-> "submitted",
                             layoutEntries |-> gc.bind_group_layouts[CallSetNum],
                             groupEntries |-> entries,
                             sets |-> DOMAIN gc.bind_group_layouts,
                             bound |-> DOMAIN gc.bind_group_layouts]
             /\ UNCHANGED panicked
        ELSE /\ panicked' = TRUE
             /\ lastCall' = [called |-> TRUE, status |-> "panicked",
                             layoutEntries |-> <<>>, groupEntries |-> <<>>,
                             sets |-> DOMAIN gc.bind_group_layouts,
                             bound |-> {}]
             /\ UNCHANGED <<queue, expected, dispatched>>
    /\ nCalls' = nCalls + 1
    /\ UNCHANGED <<target, gpu, staging, storage, mapped, builder,
                   built, compiled, lastCompile, lastGet, uploaded, synced>>

Next ==
    \/ to_device
    \/ get
    \/ DeviceStep
    \/ ParamsBuilder_new
    \/ param
    \/ build
    \/ compile
    \/ call

Spec == Init /\ [][Next]_vars

\* The builder on its own: the operations that write builder and built
\* (get, DeviceStep, compile and call leave both unchanged), and to_device
\* for the buffers param is given.
NextBuilder ==
    \/ to_device
    \/ ParamsBuilder_new
    \/ param
    \/ build

SpecBuilder == Init /\ [][NextBuilder]_vars

(* ================================ claims =============================== *)

\* The element count recorded for buffer b: its byte size over size_of::<T>().
Count(b) == gpu[b].size \div gpu[b].elem

\* C1: a readback of an uploaded non-empty sequence, with no dispatch on the
\* buffer submitted in between, whose mapping resolves, returns Some(seq):
\* the same elements, in the same order, and no more.
C1_RoundTrip ==
    (lastGet.called /\ lastGet.ok /\ lastGet.clean
        /\ uploaded[lastGet.buf] # <<>>)
    => lastGet.result = Some(uploaded[lastGet.buf])

\* C2: a readback returns the contents produced by every upload and dispatch
\* submitted before it, applied in submission order: the buffer's elements
\* in the result are those of its storage under submission order, so after
\* upload, dispatch, readback they are the post-dispatch ones.
C2_QueueOrdering ==
    (lastGet.called /\ IsSome(lastGet.result))
    => /\ Len(lastGet.result[1]) >= Count(lastGet.buf)
       /\ Take(lastGet.result[1], Count(lastGet.buf))
            = ChunksExact(lastGet.expected, gpu[lastGet.buf].elem)

\* C2 witness: a readback that followed a dispatch on its buffer returned
\* elements that differ from the uploaded ones.
C2_Witness ==
    /\ lastGet.called
    /\ IsSome(lastGet.result)
    /\ ~lastGet.clean
    /\ Count(lastGet.buf) > 0
    /\ Take(lastGet.result[1], Count(lastGet.buf)) # uploaded[lastGet.buf]

\* C3: after N param calls and build, the layout has one set whose binding
\* indices are exactly 0..N-1; the k-th call's descriptor sits at key k with
\* binding field k and that call's type tag; the entry map has key k exactly
\* when the k-th call supplied a buffer, and the entry names that buffer.
C3_BindingDensity ==
    IsSome(built) =>
        LET r == built[1]
            N == Len(r.log)
            sets == r.layout.set_bind_group_layouts
        IN
        /\ Cardinality(DOMAIN sets) = 1
        /\ \A sid \in DOMAIN sets :
            /\ DOMAIN sets[sid] = 0..(N - 1)
            /\ \A k \in 0..(N - 1) :
                /\ sets[sid][k].entry.binding = k
                /\ sets[sid][k].tag = r.log[k + 1].tag
        /\ DOMAIN r.args = {k \in 0..(N - 1) : IsSome(r.log[k + 1].gpu_data)}
        /\ \A k \in DOMAIN r.args :
            r.args[k] = [binding |-> k, resource |-> r.log[k + 1].gpu_data[1]]

\* C3 witness: a layout built from two param calls, the first without a
\* buffer and the second with one.
C3_Witness ==
    /\ IsSome(built)
    /\ Len(built[1].log) = 2
    /\ built[1].log[1].gpu_data = None
    /\ IsSome(built[1].log[2].gpu_data)

\* C4: when a step of compile fails, compile returns the failure result
\* (Err) and the caller holds no compiled pipeline.
C4_CompilationFailure ==
    (lastCompile.called /\ lastCompile.failed)
    => (lastCompile.result = "Err" /\ compiled = None)

\* C5: every get that returns resolves one of two ways: the mapping resolved
\* and it returns Some(data) with the staging buffer unmapped, or the mapping
\* was rejected and it returns None; no staging buffer stays mapped.
C5_SoftFail ==
    /\ lastGet.called =>
        \/ (lastGet.ok /\ IsSome(lastGet.result) /\ ~lastGet.mapped)
        \/ (~lastGet.ok /\ lastGet.result = None)
    /\ \A b \in 1..Len(mapped) : ~mapped[b]

\* C5 witness: a get whose mapping request was rejected has returned None,
\* and the program goes on.
C5_Witness ==
    lastGet.called /\ ~lastGet.ok /\ lastGet.result = None /\ ~panicked

\* C6: build on a builder with no param call returns a layout with exactly
\* one set, with id 0 for an absent argument and the given id otherwise, that
\* set has no binding, and the entry map is empty.
C6_DegenerateBuilder ==
    (IsSome(built) /\ built[1].log = <<>>) =>
        LET r == built[1]
            sets == r.layout.set_bind_group_layouts
            sid == IF r.set = None THEN 0 ELSE r.set[1]
        IN
        /\ DOMAIN sets = {sid}
        /\ DOMAIN sets[sid] = {}
        /\ DOMAIN r.args = {}

\* C6 witness: an empty builder was built for set 1.
C6_Witness ==
    IsSome(built) /\ built[1].log = <<>> /\ built[1].set = Some(1) /\ ~panicked

\* C7: an upload of the empty sequence gives a buffer of byte size 0, and a
\* readback of it whose mapping resolves returns Some of the empty sequence.
C7_ZeroLength ==
    /\ \A b \in 1..Len(gpu) : uploaded[b] = <<>> => gpu[b].size = 0
    /\ (lastGet.called /\ lastGet.ok /\ uploaded[lastGet.buf] = <<>>)
        => lastGet.result = Some(<<>>)

\* C8: the layout entries compile hands to the device and the bind-group
\* entries call hands to it have the same length and, position by position,
\* the same binding index (stated here for the builds in which every param
\* call supplied a buffer).
C8_Positional ==
    (/\ lastCall.called
     /\ lastCall.status = "submitted"
     /\ IsSome(built)
     /\ \A k \in 1..Len(built[1].log) : IsSome(built[1].log[k].gpu_data))
    => /\ Len(lastCall.layoutEntries) = Len(lastCall.groupEntries)
       /\ \A i \in 1..Len(lastCall.layoutEntries) :
            lastCall.layoutEntries[i].binding = lastCall.groupEntries[i].binding

\* C9: call on a pipeline compiled from a layout built with any set id runs
\* to its end, binds a bind group at each set id of the pipeline, and
\* submits the dispatch.
C9_PerSetBinding ==
    lastCall.called =>
        /\ lastCall.status = "submitted"
        /\ lastCall.bound = lastCall.sets

====
